---- MODULE Spec2Model ----
(***************************************************************************)
(* Model of lib/atom-package-sync.js: the AtomPackageSync engine.          *)
(*                                                                         *)
(* The engine runs on a single JavaScript thread.  Every action below is   *)
(* one macrotask or one promise resolution together with the whole chain   *)
(* of synchronous code and continuations that runs before the next         *)
(* suspension point (a pending call to getSyncChanges, the settings        *)
(* manager or the remote API).                                             *)
(***************************************************************************)
EXTENDS Integers, Sequences, FiniteSets, TLC

\* ------------------------------------------------------------- bounds
MaxPasses  == 2   \* sync() calls that start a pass
MaxChanges == 2   \* length of the list getSyncChanges() resolves with
MaxVersion == 2   \* remote lastUpdate values 0..MaxVersion

Pkgs == {"a"}

\* autocheckTimer is falsy (undefined, later false) when no interval is set
NoTimer == 0

\* ------------------------------------------------------------- state
VARIABLES
    phase,            \* "constructed" | "activated" | "running"
    deactivated,      \* deactivate() has run
    syncLock,         \* this._stateManager.syncLock
    autocheckTimer,   \* this.autocheckTimer: NoTimer or an interval id
    liveTimers,       \* interval ids set by setInterval and not yet cleared
    timerSeq,         \* number of setInterval calls so far
    passes,           \* pass id -> pass in flight (its promise chain)
    passesStarted,    \* number of passes started (getSyncChanges calls)
    lockAcquired,     \* number of times syncLock went from false to true
    seqCount,         \* number of async.eachSeries invocations
    detectFailures,   \* number of getSyncChanges() rejections
    successPasses,    \* number of passes that reached the unlock of line 176
    notifications,    \* number of atom.notifications.addSuccess calls
    installed,        \* locally installed packages
    localSettings,    \* package settings applied locally (version stamp)
    localLastUpdate,  \* atom settings manager lastUpdate
    remoteLastUpdate, \* lastUpdate of the remote store
    lastOp            \* the operation that produced this state

vars == <<phase, deactivated, syncLock, autocheckTimer, liveTimers, timerSeq,
          passes, passesStarted, lockAcquired, seqCount, detectFailures,
          successPasses, notifications, installed, localSettings,
          localLastUpdate, remoteLastUpdate, lastOp>>

\* ------------------------------------------------------------- SyncStatus
ClientStatuses == {"AddPackagesFromClient", "RemovePackagesFromClient",
                   "SettingsChangedFromClient"}

ServerStatuses == {"AddPackagesFromServer", "RemovePackagesFromServer",
                   "PackageSettingsChangedFromServer"}

SyncStatus == {"FirstTimeConnect", "NewAtomInstance"}
                 \cup ClientStatuses \cup ServerStatuses

\* a status value for which the switch of sync() has no case
UnhandledStatus == "UnhandledStatus"

Change(status, packages, packageSettings, lastUpdate) ==
    [status |-> status, packages |-> packages,
     packageSettings |-> packageSettings, lastUpdate |-> lastUpdate]

\* The records getSyncChanges() may report while a remote copy exists: client
\* changes at any time, server changes when the remote copy is newer.
ChangeRecords(local, remote, inst) ==
    {Change(s, {}, 0, remote) : s \in ClientStatuses \cup {UnhandledStatus}}
    \cup (IF remote > local
          THEN {Change("AddPackagesFromServer", ps, 0, remote) :
                    ps \in (SUBSET (Pkgs \ inst)) \ {{}}}
               \cup {Change("RemovePackagesFromServer", ps, 0, remote) :
                    ps \in (SUBSET inst) \ {{}}}
               \cup {Change("PackageSettingsChangedFromServer", {}, remote, remote)}
          ELSE {})

\* The lists getSyncChanges() may resolve with.  A record carries the whole
\* package list of its status, so a list holds a status at most once.
\* FirstTimeConnect (no remote copy yet) and NewAtomInstance (remote copy,
\* client never synced) are reported as the only record of their list.
getSyncChanges(local, remote, inst) ==
    {cs \in UNION {[1..k -> ChangeRecords(local, remote, inst)] : k \in 0..MaxChanges} :
        \A i, j \in 1..Len(cs) : cs[i].status = cs[j].status => i = j}
    \cup (IF remote = 0
          THEN {<<Change("FirstTimeConnect", {}, 0, remote)>>} ELSE {})
    \cup (IF remote > 0 /\ local = 0
          THEN {<<Change("NewAtomInstance", ps, remote, remote)>> :
                    ps \in (SUBSET (Pkgs \ inst)) \ {{}}}
          ELSE {})

\* ------------------------------------------------------------- passes
\* A handler invocation made by the closure func of the eachSeries iterator.
Invoke(h, packages, packageSettings) ==
    [h |-> h, packages |-> packages, packageSettings |-> packageSettings]

\* The switch with the NewAtomInstance chain running backup before the
\* settings are applied.
funcCompositeReordered(change) ==
    CASE change.status = "FirstTimeConnect" ->
            <<Invoke("backup", {}, 0)>>
      [] change.status \in ClientStatuses ->
            <<Invoke("backup", {}, 0)>>
      [] change.status = "AddPackagesFromServer" ->
            <<Invoke("handlePackageAdd", change.packages, 0)>>
      [] change.status = "RemovePackagesFromServer" ->
            <<Invoke("handlePackageRemove", change.packages, 0)>>
      [] change.status = "PackageSettingsChangedFromServer" ->
            <<Invoke("applyPackageSettings", {}, change.packageSettings)>>
      [] change.status = "NewAtomInstance" ->
            <<Invoke("handlePackageAdd", change.packages, 0),
              Invoke("backup", {}, 0),
              Invoke("applyPackageSettings", {}, change.packageSettings)>>
      [] OTHER -> <<>>

\* The switch with the bodies of the two package cases exchanged.
funcCasesExchanged(change) ==
    CASE change.status = "FirstTimeConnect" ->
            <<Invoke("backup", {}, 0)>>
      [] change.status \in ClientStatuses ->
            <<Invoke("backup", {}, 0)>>
      [] change.status = "AddPackagesFromServer" ->
            <<Invoke("handlePackageRemove", change.packages, 0)>>
      [] change.status = "RemovePackagesFromServer" ->
            <<Invoke("handlePackageAdd", change.packages, 0)>>
      [] change.status = "PackageSettingsChangedFromServer" ->
            <<Invoke("applyPackageSettings", {}, change.packageSettings)>>
      [] change.status = "NewAtomInstance" ->
            <<Invoke("handlePackageAdd", change.packages, 0),
              Invoke("applyPackageSettings", {}, change.packageSettings),
              Invoke("backup", {}, 0)>>
      [] OTHER -> <<>>

\* The switch on change.status: the handlers func() runs, in order.
\* The empty sequence stands for func left undefined.
func(change) ==
    CASE change.status = "FirstTimeConnect" ->
            <<Invoke("backup", {}, 0)>>
      [] change.status \in ClientStatuses ->
            <<Invoke("backup", {}, 0)>>
      [] change.status = "AddPackagesFromServer" ->
            <<Invoke("handlePackageAdd", change.packages, 0)>>
      [] change.status = "RemovePackagesFromServer" ->
            <<Invoke("handlePackageRemove", change.packages, 0)>>
      [] change.status = "PackageSettingsChangedFromServer" ->
            <<Invoke("applyPackageSettings", {}, change.packageSettings)>>
      [] change.status = "NewAtomInstance" ->
            <<Invoke("handlePackageAdd", change.packages, 0),
              Invoke("applyPackageSettings", {}, change.packageSettings),
              Invoke("backup", {}, 0)>>
      [] OTHER -> <<>>

\* The asynchronous collaborator calls a handler awaits, in order.
Calls(h) ==
    CASE h = "backup"               -> <<"saveAtomSettings">>
      [] h = "handlePackageAdd"     -> <<"installMissingPackages", "fetchAtomSettingsInfo">>
      [] h = "handlePackageRemove"  -> <<"uninstallPackages", "fetchAtomSettingsInfo">>
      [] h = "applyPackageSettings" -> <<"fetchAtomSettingsInfo">>

\* One entry of a pass's trace.
Ev(ev, idx, h, packages, packageSettings, value) ==
    [ev |-> ev, idx |-> idx, h |-> h, packages |-> packages,
     packageSettings |-> packageSettings, value |-> value]

\* The pass created by sync(): getSyncChanges() is pending.
NewPass ==
    [pc |-> "detecting", changes |-> <<>>, idx |-> 0, stage |-> 0, call |-> 0,
     log |-> <<>>]

\* The engine and store state one pass's continuation reads and writes.
World(id) ==
    [p |-> passes[id], syncLock |-> syncLock, autocheckTimer |-> autocheckTimer,
     liveTimers |-> liveTimers, timerSeq |-> timerSeq,
     seqCount |-> seqCount, detectFailures |-> detectFailures,
     successPasses |-> successPasses,
     notifications |-> notifications, installed |-> installed,
     localSettings |-> localSettings, localLastUpdate |-> localLastUpdate,
     remoteLastUpdate |-> remoteLastUpdate]

Logged(w, e) == [w EXCEPT !.p.log = Append(@, e)]

CurChange(w) == w.p.changes[w.p.idx]
CurInvoke(w) == func(CurChange(w))[w.p.stage]
CurCall(w)   == Calls(CurInvoke(w).h)[w.p.call]

\* ------------------------------------------------------------- scheduler
\* setupAutoUpdateCheck() without the test of autocheckTimer.
setupAutoUpdateCheckAlways(w) ==
    [w EXCEPT !.timerSeq = w.timerSeq + 1,
              !.autocheckTimer = w.timerSeq + 1,
              !.liveTimers = w.liveTimers \cup {w.timerSeq + 1}]

\* setupAutoUpdateCheck(): start the interval unless one is already set.
setupAutoUpdateCheck(w) ==
    IF w.autocheckTimer # NoTimer
    THEN w
    ELSE [w EXCEPT !.timerSeq = w.timerSeq + 1,
                   !.autocheckTimer = w.timerSeq + 1,
                   !.liveTimers = w.liveTimers \cup {w.timerSeq + 1}]

\* stopAutoUpdateCheck(): clearInterval(this.autocheckTimer), then mark it false.
stopAutoUpdateCheck ==
    /\ liveTimers' = liveTimers \ {autocheckTimer}
    /\ autocheckTimer' = NoTimer

\* ------------------------------------------------------------- sync(): the pass
\* this._atomSettingsManager.setLastUpdate(v)
setLastUpdate(w, v) ==
    Logged([w EXCEPT !.localLastUpdate = v],
           Ev("setLastUpdate", w.p.idx, CurInvoke(w).h, {}, 0, v))

\* Finish arming the scheduler only when changes were processed.
FinishArmsOnChangesOnly(w) ==
    LET n  == Len(w.p.changes)
        w1 == IF n > 0
              THEN setupAutoUpdateCheck([w EXCEPT !.notifications = w.notifications + 1])
              ELSE w
    IN  [w1 EXCEPT !.syncLock = FALSE,
                   !.successPasses = w1.successPasses + 1,
                   !.p.pc = "done"]

\* Finish notifying whatever the number of changes.
FinishAlwaysNotifies(w) ==
    LET w1 == [w EXCEPT !.notifications = w.notifications + 1]
        w2 == setupAutoUpdateCheck(w1)
    IN  [w2 EXCEPT !.syncLock = FALSE,
                   !.successPasses = w2.successPasses + 1,
                   !.p.pc = "done"]

\* The two continuations after the eachSeries promise resolves with
\* changes.length: notify, arm the scheduler, then unlock.
Finish(w) ==
    LET n  == Len(w.p.changes)
        w1 == IF n > 0 THEN [w EXCEPT !.notifications = w.notifications + 1] ELSE w
        w2 == setupAutoUpdateCheck(w1)
    IN  [w2 EXCEPT !.syncLock = FALSE,
                   !.successPasses = w2.successPasses + 1,
                   !.p.pc = "done"]

\* func() has just called the handler at p.stage: the handler's synchronous
\* part runs and its first collaborator call is pending.
StartHandler(w) ==
    LET inv == CurInvoke(w)
        w1  == Logged(w, Ev("call", w.p.idx, inv.h, inv.packages, inv.packageSettings, 0))
        w2  == IF inv.h = "applyPackageSettings"
               THEN Logged([w1 EXCEPT !.localSettings = inv.packageSettings],
                           Ev("writeSettings", w.p.idx, inv.h, {}, inv.packageSettings, 0))
               ELSE w1
    IN  [w2 EXCEPT !.p.call = 1, !.p.pc = "handling"]

\* The eachSeries iterator on changes[p.idx]: with no func, next is never called.
Iterate(w) ==
    IF func(CurChange(w)) = <<>>
    THEN Logged([w EXCEPT !.p.pc = "stalled", !.p.stage = 0, !.p.call = 0],
                Ev("nofunc", w.p.idx, "", {}, 0, 0))
    ELSE StartHandler([w EXCEPT !.p.stage = 1])

\* next(): eachSeries moves to the following change, or calls its completion
\* callback without error.
next(w) ==
    LET w1 == Logged(w, Ev("next", w.p.idx, "", {}, 0, 0))
    IN  IF w.p.idx < Len(w.p.changes)
        THEN Iterate([w1 EXCEPT !.p.idx = w.p.idx + 1])
        ELSE Finish(w1)

\* async.eachSeries(changes, iterator, callback)
eachSeries(w, changes) ==
    LET w1 == [w EXCEPT !.p.changes = changes, !.seqCount = w.seqCount + 1]
    IN  IF changes = <<>>
        THEN Finish(w1)
        ELSE Iterate([w1 EXCEPT !.p.idx = 1])

\* The promise of the current handler resolved: the next .then of func(), or
\* the .then(() => next()) of the iterator.
HandlerResolved(w) ==
    LET w1 == Logged(w, Ev("ret", w.p.idx, CurInvoke(w).h, {}, 0, 0))
    IN  IF w.p.stage < Len(func(CurChange(w)))
        THEN StartHandler([w1 EXCEPT !.p.stage = w.p.stage + 1])
        ELSE next(w1)

\* The rejection handled by going on to the next change.
HandlerRejectedCallsNext(w) ==
    next(Logged(w, Ev("throw", w.p.idx, CurInvoke(w).h, {}, 0, 0)))

\* The rejection handled by arming the scheduler.
HandlerRejectedArms(w) ==
    setupAutoUpdateCheck(Logged([w EXCEPT !.p.pc = "stalled"],
                                Ev("throw", w.p.idx, CurInvoke(w).h, {}, 0, 0)))

\* The promise of func() rejected: .catch(err => { throw err }) rethrows into
\* a promise nobody awaits, and next is never called.
HandlerRejected(w) ==
    Logged([w EXCEPT !.p.pc = "stalled"],
           Ev("throw", w.p.idx, CurInvoke(w).h, {}, 0, 0))

\* ------------------------------------------------------------- handlers
\* handlePackageAdd that does not store the fetched lastUpdate.
handlePackageAddNoStamp(w, r) ==
    IF w.p.call = 1
    THEN Logged([w EXCEPT !.installed = w.installed \cup CurInvoke(w).packages,
                          !.p.call = 2],
                Ev("install", w.p.idx, "handlePackageAdd", CurInvoke(w).packages, 0, 0))
    ELSE HandlerResolved(w)

\* handlePackageAdd(packages), resumed when its pending call resolves with r
handlePackageAdd(w, r) ==
    IF w.p.call = 1
    THEN Logged([w EXCEPT !.installed = w.installed \cup CurInvoke(w).packages,
                          !.p.call = 2],
                Ev("install", w.p.idx, "handlePackageAdd", CurInvoke(w).packages, 0, 0))
    ELSE HandlerResolved(setLastUpdate(w, r.lastUpdate))

\* handlePackageRemove(packages), resumed when its pending call resolves with r
handlePackageRemove(w, r) ==
    IF w.p.call = 1
    THEN Logged([w EXCEPT !.installed = w.installed \ CurInvoke(w).packages,
                          !.p.call = 2],
                Ev("uninstall", w.p.idx, "handlePackageRemove", CurInvoke(w).packages, 0, 0))
    ELSE HandlerResolved(setLastUpdate(w, r.lastUpdate))

\* applyPackageSettings(packageSettings), resumed when fetchAtomSettingsInfo
\* resolves with r (the settings were written when the handler was called)
applyPackageSettings(w, r) ==
    HandlerResolved(setLastUpdate(w, r.lastUpdate))

\* backup(), resumed when saveAtomSettings resolves with r
backup(w, r) ==
    HandlerResolved(IF r.success = TRUE THEN setLastUpdate(w, r.lastUpdate) ELSE w)

\* The handler whose call was pending continues with the result r.
Resume(w, r) ==
    CASE CurInvoke(w).h = "backup"               -> backup(w, r)
      [] CurInvoke(w).h = "handlePackageAdd"     -> handlePackageAdd(w, r)
      [] CurInvoke(w).h = "handlePackageRemove"  -> handlePackageRemove(w, r)
      [] CurInvoke(w).h = "applyPackageSettings" -> applyPackageSettings(w, r)

\* ------------------------------------------------------------- collaborators
\* What a pending collaborator call may resolve with.  saveAtomSettings
\* answers {success, lastUpdate}; fetchAtomSettingsInfo answers {lastUpdate}.
Results(w) ==
    IF CurCall(w) = "saveAtomSettings"
    THEN {[success |-> FALSE, lastUpdate |-> w.remoteLastUpdate]}
         \cup (IF w.remoteLastUpdate < MaxVersion
               THEN {[success |-> TRUE, lastUpdate |-> w.remoteLastUpdate + 1]}
               ELSE {})
    ELSE {[success |-> TRUE, lastUpdate |-> w.remoteLastUpdate]}

\* The remote store after the call answered r: a successful save is a new version.
Remote(w, r) ==
    IF CurCall(w) = "saveAtomSettings" /\ r.success = TRUE
    THEN [w EXCEPT !.remoteLastUpdate = r.lastUpdate]
    ELSE w

\* ------------------------------------------------------------- actions
Op(op, by, how, n) == [op |-> op, by |-> by, how |-> how, n |-> n, writes |-> 0]

Init ==
    /\ phase = "constructed"
    /\ deactivated = FALSE
    /\ syncLock = FALSE
    /\ autocheckTimer = NoTimer
    /\ liveTimers = {}
    /\ timerSeq = 0
    /\ passes = <<>>
    /\ passesStarted = 0
    /\ lockAcquired = 0
    /\ seqCount = 0
    /\ detectFailures = 0
    /\ successPasses = 0
    /\ notifications = 0
    /\ installed = {}
    /\ localSettings = 0
    /\ localLastUpdate = 0
    /\ remoteLastUpdate = 0
    /\ lastOp = Op("init", "", "", 0)

\* sync() without the test of syncLock: every call starts a pass.
syncNoLockCheck(by) ==
    /\ passesStarted < MaxPasses
    /\ syncLock' = TRUE
    /\ lockAcquired' = lockAcquired + (IF syncLock THEN 0 ELSE 1)
    /\ passesStarted' = passesStarted + 1
    /\ passes' = [i \in DOMAIN passes \cup {passesStarted + 1} |->
                     IF i = passesStarted + 1 THEN NewPass ELSE passes[i]]
    /\ lastOp' = Op("sync", by, "started", 0)
    /\ UNCHANGED <<autocheckTimer, liveTimers, timerSeq, seqCount,
                   detectFailures, successPasses, notifications, installed,
                   localSettings, localLastUpdate, remoteLastUpdate>>

\* sync() whose early return clears the lock it found held.
syncCoalesceUnlocks(by) ==
    IF syncLock
    THEN /\ lastOp' = Op("sync", by, "coalesced", 0)
         /\ syncLock' = FALSE
         /\ UNCHANGED <<autocheckTimer, liveTimers, timerSeq, passes,
                        passesStarted, lockAcquired, seqCount, detectFailures,
                        successPasses, notifications, installed, localSettings,
                        localLastUpdate, remoteLastUpdate>>
    ELSE /\ passesStarted < MaxPasses
         /\ syncLock' = TRUE
         /\ lockAcquired' = lockAcquired + 1
         /\ passesStarted' = passesStarted + 1
         /\ passes' = [i \in DOMAIN passes \cup {passesStarted + 1} |->
                          IF i = passesStarted + 1 THEN NewPass ELSE passes[i]]
         /\ lastOp' = Op("sync", by, "started", 0)
         /\ UNCHANGED <<autocheckTimer, liveTimers, timerSeq, seqCount,
                        detectFailures, successPasses, notifications, installed,
                        localSettings, localLastUpdate, remoteLastUpdate>>

\* sync(), called by the trigger `by`: return at once when the lock is held,
\* otherwise take the lock and call getSyncChanges().
sync(by) ==
    IF syncLock
    THEN /\ lastOp' = Op("sync", by, "coalesced", 0)
         /\ UNCHANGED <<syncLock, autocheckTimer, liveTimers, timerSeq, passes,
                        passesStarted, lockAcquired, seqCount, detectFailures, successPasses,
                        notifications, installed, localSettings,
                        localLastUpdate, remoteLastUpdate>>
    ELSE /\ passesStarted < MaxPasses
         /\ syncLock' = TRUE
         /\ lockAcquired' = lockAcquired + 1
         /\ passesStarted' = passesStarted + 1
         /\ passes' = [i \in DOMAIN passes \cup {passesStarted + 1} |->
                          IF i = passesStarted + 1 THEN NewPass ELSE passes[i]]
         /\ lastOp' = Op("sync", by, "started", 0)
         /\ UNCHANGED <<autocheckTimer, liveTimers, timerSeq, seqCount,
                        detectFailures, successPasses, notifications, installed, localSettings,
                        localLastUpdate, remoteLastUpdate>>

\* activate(state): the state manager is created, the 10 s timeout is set.
Activate ==
    /\ phase = "constructed"
    /\ phase' = "activated"
    /\ lastOp' = Op("env", "", "", 0)
    /\ UNCHANGED <<deactivated, syncLock, autocheckTimer, liveTimers, timerSeq,
                   passes, passesStarted, lockAcquired, seqCount, detectFailures, successPasses,
                   notifications, installed, localSettings, localLastUpdate,
                   remoteLastUpdate>>

\* The timeout of activate(): the instance manager calls start(), which calls
\* sync(); the check-backup command is registered.
Start ==
    /\ phase = "activated"
    /\ phase' = "running"
    /\ sync("start")
    /\ UNCHANGED deactivated

\* The command atom-package-sync:check-backup.
CommandSync ==
    /\ phase = "running"
    /\ sync("command")
    /\ UNCHANGED <<phase, deactivated>>

\* A tick of an interval set by setupAutoUpdateCheck().
TimerTick ==
    /\ liveTimers # {}
    /\ sync("tick")
    /\ UNCHANGED <<phase, deactivated>>

\* deactivate(): stop() -> stopAutoUpdateCheck().
Deactivate ==
    /\ phase # "constructed"
    /\ ~deactivated
    /\ deactivated' = TRUE
    /\ stopAutoUpdateCheck
    /\ lastOp' = Op("env", "", "", 0)
    /\ UNCHANGED <<phase, syncLock, timerSeq, passes, passesStarted,
                   lockAcquired, seqCount, detectFailures, successPasses, notifications,
                   installed, localSettings, localLastUpdate, remoteLastUpdate>>

\* The number of setLastUpdate calls a pass has made.
Writes(L) ==
    LET IsWrite(e) == e.ev = "setLastUpdate"
    IN  Len(SelectSeq(L, IsWrite))

\* The pass `id` ran up to its next suspension point and left the world w.
Commit(id, w, by) ==
    /\ passes' = IF w.p.pc \in {"done", "failed"}
                 THEN [i \in DOMAIN passes \ {id} |-> passes[i]]
                 ELSE [passes EXCEPT ![id] = w.p]
    /\ syncLock' = w.syncLock
    /\ autocheckTimer' = w.autocheckTimer
    /\ liveTimers' = w.liveTimers
    /\ timerSeq' = w.timerSeq
    /\ seqCount' = w.seqCount
    /\ detectFailures' = w.detectFailures
    /\ successPasses' = w.successPasses
    /\ notifications' = w.notifications
    /\ installed' = w.installed
    /\ localSettings' = w.localSettings
    /\ localLastUpdate' = w.localLastUpdate
    /\ remoteLastUpdate' = w.remoteLastUpdate
    /\ lastOp' = [Op("pass", by, w.p.pc, Len(w.p.changes))
                       EXCEPT !.writes = Writes(w.p.log)]
    /\ UNCHANGED <<phase, deactivated, passesStarted, lockAcquired>>

\* getSyncChanges() resolved with a list of changes.
DetectResolve(id) ==
    /\ passes[id].pc = "detecting"
    /\ \E changes \in getSyncChanges(localLastUpdate, remoteLastUpdate, installed) :
          Commit(id, eachSeries(World(id), changes), "getSyncChanges.resolve")

\* The .catch leaving the lock set.
CatchKeepsLock(w) ==
    [w EXCEPT !.p.pc = "failed", !.detectFailures = w.detectFailures + 1]

\* The .catch of sync(): unlock.
Catch(w) ==
    [w EXCEPT !.syncLock = FALSE, !.p.pc = "failed",
              !.detectFailures = w.detectFailures + 1]

\* getSyncChanges() rejected.
DetectReject(id) ==
    /\ passes[id].pc = "detecting"
    /\ Commit(id, Catch(World(id)), "getSyncChanges.reject")

\* The pending collaborator call of the pass resolved.
CallResolve(id) ==
    /\ passes[id].pc = "handling"
    /\ \E r \in Results(World(id)) :
          Commit(id, Resume(Remote(World(id), r), r), "call.resolve")

\* The pending collaborator call of the pass rejected.
CallReject(id) ==
    /\ passes[id].pc = "handling"
    /\ Commit(id, HandlerRejected(World(id)), "call.reject")

\* Another client saved to the remote store.
RemoteAdvance ==
    /\ remoteLastUpdate < MaxVersion
    /\ remoteLastUpdate' = remoteLastUpdate + 1
    /\ lastOp' = Op("env", "", "", 0)
    /\ UNCHANGED <<phase, deactivated, syncLock, autocheckTimer, liveTimers,
                   timerSeq, passes, passesStarted, lockAcquired, seqCount,
                   detectFailures, successPasses, notifications, installed, localSettings,
                   localLastUpdate>>

Next ==
    \/ Activate
    \/ Start
    \/ CommandSync
    \/ TimerTick
    \/ Deactivate
    \/ RemoteAdvance
    \/ \E id \in DOMAIN passes : DetectResolve(id)
    \/ \E id \in DOMAIN passes : DetectReject(id)
    \/ \E id \in DOMAIN passes : CallResolve(id)
    \/ \E id \in DOMAIN passes : CallReject(id)

Spec == Init /\ [][Next]_vars

\* ------------------------------------------------------------- properties
Pending(id) == passes[id].pc \in {"detecting", "handling"}

LastEv(id) ==
    IF passes[id].log = <<>> THEN "" ELSE passes[id].log[Len(passes[id].log)].ev

\* the pass stopped because the promise of func() rejected
StalledByFailure(id) == passes[id].pc = "stalled" /\ LastEv(id) = "throw"

\* the pass stopped on a change whose status has no case in the switch
StalledByStatus(id) == passes[id].pc = "stalled" /\ LastEv(id) = "nofunc"

PassDone(op) == op.op = "pass" /\ op.how = "done"

\* C1 (as stated): at most one pass holds the lock at any time, and once no
\* getSyncChanges() call is pending the number of eachSeries runs equals the
\* number of times the lock was acquired.
C1_AsStated ==
    /\ Cardinality(DOMAIN passes) <= 1
    /\ (\A id \in DOMAIN passes : passes[id].pc # "detecting")
          => seqCount = lockAcquired

\* C1 (amended): at most one pass holds the lock at any time, the lock is held
\* exactly while a pass has not cleared it, every pass acquired the lock, and
\* the number of eachSeries runs equals the number of lock acquisitions less
\* the passes whose getSyncChanges() call rejected or is still pending.
C1_MutualExclusion ==
    /\ Cardinality(DOMAIN passes) <= 1
    /\ syncLock <=> DOMAIN passes # {}
    /\ passesStarted = lockAcquired
    /\ seqCount + detectFailures
         + Cardinality({id \in DOMAIN passes : passes[id].pc = "detecting"})
       = lockAcquired

\* a poll tick was coalesced on the second pass, which is running a handler
C1_Witness ==
    /\ lockAcquired = 2
    /\ lastOp = Op("sync", "tick", "coalesced", 0)
    /\ \E id \in DOMAIN passes : passes[id].pc = "handling"

\* C2: a pass whose handler failed has released syncLock.
C2_LockReleasedAfterFailure ==
    \A id \in DOMAIN passes : StalledByFailure(id) => ~syncLock

\* C3: a pass never stops on a change whose status has no handler: the change
\* is skipped and the pass goes on.
C3_UnhandledStatusSkipped ==
    \A id \in DOMAIN passes :
        passes[id].idx >= 1 => func(passes[id].changes[passes[id].idx]) # <<>>

\* C4: in the trace of a pass, a handler is called for change i only after
\* every earlier change resolved (next was called for it), calls never go
\* back to an earlier change, and nothing is called after a rejection.
C4_HandlersInOrder ==
    \A id \in DOMAIN passes :
        LET L == passes[id].log IN
        \A k \in 1..Len(L) :
            L[k].ev = "call" =>
                /\ \A j \in 1..(L[k].idx - 1) :
                       \E m \in 1..(k - 1) : L[m].ev = "next" /\ L[m].idx = j
                /\ \A m \in 1..(k - 1) :
                       /\ L[m].ev = "call" => L[m].idx <= L[k].idx
                       /\ L[m].ev # "throw"
                       /\ L[m].ev = "next" => L[m].idx < L[k].idx

\* the handler of the first of two changes rejected
C4_Witness ==
    \E id \in DOMAIN passes :
        /\ StalledByFailure(id)
        /\ passes[id].idx = 1
        /\ Len(passes[id].changes) = 2

\* C5: a sync() call that finds syncLock held changes nothing of the engine
\* or the stores: no getSyncChanges() call, no handler, no notification.
C5_CoalescedSyncIsNoOp ==
    [][(syncLock /\ lastOp'.op = "sync") =>
          UNCHANGED <<syncLock, autocheckTimer, liveTimers, timerSeq, passes,
                      passesStarted, lockAcquired, seqCount, detectFailures,
                      successPasses, notifications, installed, localSettings,
                      localLastUpdate, remoteLastUpdate>>]_vars

\* the command was coalesced on a pass waiting for getSyncChanges()
C5_Witness ==
    /\ lastOp = Op("sync", "command", "coalesced", 0)
    /\ syncLock
    /\ \E id \in DOMAIN passes : passes[id].pc = "detecting"

\* C6: when a handler failure stopped a pass, the local lastUpdate is older
\* than the lastUpdate of every server change left unapplied.
C6_LastUpdateNotAdvanced ==
    \A id \in DOMAIN passes :
        StalledByFailure(id) =>
            \A j \in passes[id].idx..Len(passes[id].changes) :
                passes[id].changes[j].status \in ServerStatuses \cup {"NewAtomInstance"}
                    => localLastUpdate < passes[id].changes[j].lastUpdate

\* C7: the timer is armed exactly when a pass has completed successfully and
\* deactivate() has not run.
C7_TimerArmedIff ==
    (autocheckTimer # NoTimer) <=> (successPasses > 0 /\ ~deactivated)

\* C8 (as stated): a pass over an empty list completes without a
\* notification, releases the lock and leaves the scheduler as it was.
C8_AsStated ==
    [][(PassDone(lastOp') /\ lastOp'.n = 0) =>
          /\ notifications' = notifications
          /\ syncLock' = FALSE
          /\ UNCHANGED <<autocheckTimer, liveTimers>>]_vars

\* C8 (amended): a pass over an empty list completes without a notification
\* and releases the lock; every pass that completes, over an empty list or
\* not, leaves the scheduler armed, keeping the timer that was armed; and
\* the timer is armed by no other step.
C8_EmptyPassArms ==
    [][/\ (PassDone(lastOp') /\ lastOp'.n = 0) =>
              notifications' = notifications /\ syncLock' = FALSE
       /\ PassDone(lastOp') =>
              /\ autocheckTimer' # NoTimer
              /\ autocheckTimer # NoTimer => UNCHANGED <<autocheckTimer, liveTimers>>
       /\ (autocheckTimer = NoTimer /\ autocheckTimer' # NoTimer) =>
              PassDone(lastOp')]_vars

\* the first pass found no change and armed the timer
C8_Witness ==
    /\ PassDone(lastOp)
    /\ lastOp.n = 0
    /\ successPasses = 1
    /\ autocheckTimer # NoTimer
    /\ notifications = 0
    /\ ~syncLock

\* C9: a step emits one notification when it completes a pass over at least
\* one change, and none otherwise.
C9_NotifyOncePerNonEmptyPass ==
    [][notifications' =
          notifications + (IF PassDone(lastOp') /\ lastOp'.n > 0 THEN 1 ELSE 0)]_vars

\* two passes completed, one over an empty list and one over two changes
C9_Witness ==
    /\ PassDone(lastOp)
    /\ lastOp.n = 2
    /\ successPasses = 2
    /\ notifications = 1

\* The SyncStatus table: the handlers of a change, with their arguments.
TableHandlers(change) ==
    IF change.status \in {"FirstTimeConnect", "AddPackagesFromClient",
                          "RemovePackagesFromClient", "SettingsChangedFromClient"}
    THEN <<[h |-> "backup", packages |-> {}, packageSettings |-> 0]>>
    ELSE IF change.status = "AddPackagesFromServer"
    THEN <<[h |-> "handlePackageAdd", packages |-> change.packages, packageSettings |-> 0]>>
    ELSE IF change.status = "RemovePackagesFromServer"
    THEN <<[h |-> "handlePackageRemove", packages |-> change.packages, packageSettings |-> 0]>>
    ELSE IF change.status = "PackageSettingsChangedFromServer"
    THEN <<[h |-> "applyPackageSettings", packages |-> {},
            packageSettings |-> change.packageSettings]>>
    ELSE IF change.status = "NewAtomInstance"
    THEN <<[h |-> "handlePackageAdd", packages |-> change.packages, packageSettings |-> 0],
           [h |-> "applyPackageSettings", packages |-> {},
            packageSettings |-> change.packageSettings],
           [h |-> "backup", packages |-> {}, packageSettings |-> 0]>>
    ELSE <<>>

\* the handler calls the trace holds for change i
CallsOf(L, i) ==
    LET IsCall(e) == e.ev = "call" /\ e.idx = i
        cs == SelectSeq(L, IsCall)
    IN  [k \in 1..Len(cs) |->
            [h |-> cs[k].h, packages |-> cs[k].packages,
             packageSettings |-> cs[k].packageSettings]]

\* C10: for every change of a pass, the handlers called for it are, in order
\* and with their arguments, the ones the SyncStatus table gives: the first of
\* them as soon as the change is reached, all of them once it resolved.
C10_DispatchByStatus ==
    \A id \in DOMAIN passes :
        LET L == passes[id].log IN
        \A i \in 1..Len(passes[id].changes) :
            LET cs == CallsOf(L, i)
                t  == TableHandlers(passes[id].changes[i])
            IN  /\ Len(cs) <= Len(t)
                /\ \A k \in 1..Len(cs) : cs[k] = t[k]
                /\ (i <= passes[id].idx /\ t # <<>>) => Len(cs) >= 1
                /\ (\E m \in 1..Len(L) : L[m].ev = "next" /\ L[m].idx = i)
                      => cs = t

\* an AddPackagesFromServer change resolved through handlePackageAdd with its
\* packages, and the settings change after it reached applyPackageSettings
C10_Witness ==
    \E id \in DOMAIN passes :
        /\ Len(passes[id].changes) = 2
        /\ passes[id].changes[1].status = "AddPackagesFromServer"
        /\ passes[id].changes[2].status = "PackageSettingsChangedFromServer"
        /\ passes[id].idx = 2
        /\ passes[id].pc = "handling"
        /\ installed = passes[id].changes[1].packages
        /\ localSettings = passes[id].changes[2].packageSettings

\* C11: the step in which getSyncChanges() rejects ends the pass with the
\* lock released, and with no eachSeries run, no handler effect on the local
\* or remote store, no notification and no change of the scheduler.
C11_DetectionFailureAborts ==
    [][(lastOp'.op = "pass" /\ lastOp'.by = "getSyncChanges.reject") =>
          /\ syncLock' = FALSE
          /\ passes' = <<>>
          /\ detectFailures' = detectFailures + 1
          /\ UNCHANGED <<seqCount, successPasses, notifications, installed,
                         localSettings, localLastUpdate, remoteLastUpdate,
                         autocheckTimer, liveTimers, timerSeq>>]_vars

\* after a detection failure a later trigger started the second pass
C11_Witness ==
    /\ detectFailures = 1
    /\ lockAcquired = 2
    /\ syncLock
    /\ lastOp.op = "sync"
    /\ lastOp.how = "started"

\* C12: backup reports success to the engine only after it persisted the
\* lastUpdate a successful save returned: in the trace of a pass the return
\* of backup directly follows its setLastUpdate.
C12_BackupFailsOnRefusedSave ==
    \A id \in DOMAIN passes :
        LET L == passes[id].log IN
        \A k \in 1..Len(L) :
            (L[k].ev = "ret" /\ L[k].h = "backup") =>
                /\ k > 1
                /\ L[k - 1].ev = "setLastUpdate"
                /\ L[k - 1].h = "backup"

\* C13: applyPackageSettings stamps the local lastUpdate with the lastUpdate
\* of the change whose settings it wrote.
C13_StampIsAppliedVersion ==
    \A id \in DOMAIN passes :
        LET L == passes[id].log IN
        \A k \in 1..Len(L) :
            (L[k].ev = "setLastUpdate" /\ L[k].h = "applyPackageSettings") =>
                L[k].value = passes[id].changes[L[k].idx].lastUpdate

\* C14: at most one interval is live and autocheckTimer is its handle;
\* arming when armed sets no interval; disarming clears the live interval and
\* marks it absent, and changes no interval when none was armed.
C14_OneLiveTimer ==
    /\ [](/\ Cardinality(liveTimers) <= 1
          /\ liveTimers = IF autocheckTimer = NoTimer THEN {} ELSE {autocheckTimer})
    /\ [][/\ (PassDone(lastOp') /\ autocheckTimer # NoTimer) =>
                 UNCHANGED <<autocheckTimer, liveTimers, timerSeq>>
          /\ (~deactivated /\ deactivated') =>
                 /\ autocheckTimer' = NoTimer
                 /\ liveTimers' = {}
                 /\ timerSeq' = timerSeq
                 /\ autocheckTimer = NoTimer => liveTimers' = liveTimers]_vars

\* two passes completed, each calling setupAutoUpdateCheck(): one interval
\* was set and it is the live one
C14_Witness ==
    /\ PassDone(lastOp)
    /\ successPasses = 2
    /\ ~deactivated
    /\ timerSeq = 1
    /\ liveTimers = {1}
    /\ autocheckTimer = 1

\* C15: no step of a pass other than its successful completion touches the
\* scheduler; in particular the step in which a handler fails leaves
\* autocheckTimer and the live intervals as they were.
C15_FailedPassKeepsScheduler ==
    [][((lastOp'.op = "pass" /\ lastOp'.how # "done")
           \/ (lastOp'.op = "sync" /\ lastOp'.how = "started")) =>
          UNCHANGED <<autocheckTimer, liveTimers, timerSeq>>]_vars

\* the handler of the second pass failed while the timer of the first was armed
C15_Witness ==
    /\ lastOp.op = "pass"
    /\ lastOp.by = "call.reject"
    /\ successPasses = 1
    /\ autocheckTimer = 1
    /\ liveTimers = {1}
    /\ \E id \in DOMAIN passes : StalledByFailure(id)

\* the calls, returns and rejections the trace holds for change i
StepsOf(L, i) ==
    LET IsStep(e) == e.idx = i /\ e.ev \in {"call", "ret", "throw"}
    IN  SelectSeq(L, IsStep)

\* the steps of a NewInstance composite that runs to its end
CompositeSteps ==
    <<[ev |-> "call", h |-> "handlePackageAdd"],
      [ev |-> "ret",  h |-> "handlePackageAdd"],
      [ev |-> "call", h |-> "applyPackageSettings"],
      [ev |-> "ret",  h |-> "applyPackageSettings"],
      [ev |-> "call", h |-> "backup"],
      [ev |-> "ret",  h |-> "backup"]>>

\* C16: for a NewAtomInstance change the trace of the pass is a prefix of
\* add called, add returned, settings called, settings returned, backup
\* called, backup returned, except that the step in progress may have
\* rejected instead of returned; a rejection is the last step, it stops the
\* pass, and next is not called for the change.
C16_CompositeInOrder ==
    \A id \in DOMAIN passes :
        LET L == passes[id].log IN
        \A i \in 1..Len(passes[id].changes) :
            passes[id].changes[i].status = "NewAtomInstance" =>
                LET S == StepsOf(L, i) IN
                /\ Len(S) <= Len(CompositeSteps)
                /\ \A k \in 1..Len(S) :
                       /\ S[k].h = CompositeSteps[k].h
                       /\ \/ S[k].ev = CompositeSteps[k].ev
                          \/ /\ S[k].ev = "throw"
                             /\ CompositeSteps[k].ev = "ret"
                             /\ k = Len(S)
                             /\ passes[id].pc = "stalled"
                             /\ ~\E m \in 1..Len(L) : L[m].ev = "next" /\ L[m].idx = i
                /\ (i <= passes[id].idx) => Len(S) >= 1

\* the composite called backup after add and settings returned
C16_Witness ==
    \E id \in DOMAIN passes :
        /\ passes[id].changes # <<>>
        /\ passes[id].changes[1].status = "NewAtomInstance"
        /\ passes[id].pc = "handling"
        /\ Len(StepsOf(passes[id].log, 1)) = 5
        /\ installed = passes[id].changes[1].packages
        /\ localSettings = passes[id].changes[1].packageSettings

\* the trace of a server change that resolved: the handler is called, mutates
\* the local state, writes lastUpdate once and returns, then next is called
ServerSteps(status) ==
    <<"call",
      CASE status = "AddPackagesFromServer" -> "install"
        [] status = "RemovePackagesFromServer" -> "uninstall"
        [] status = "PackageSettingsChangedFromServer" -> "writeSettings",
      "setLastUpdate", "ret", "next">>

EventsOf(L, i) ==
    LET IsOf(e) == e.idx = i
    IN  SelectSeq(L, IsOf)

\* C17: in the trace of a pass the events of a server change are a prefix of
\* call, local mutation, one lastUpdate write, return, next (a rejection may
\* end it), all of them when the change resolved, and all before any event
\* of a later change; and the step that completes a pass over server changes
\* only has written lastUpdate once per change, leaves the packages of an
\* add installed and the settings of a settings change applied, and emits
\* one notification.
C17_OneWritePerServerChange ==
    /\ [](\A id \in DOMAIN passes :
            LET L == passes[id].log IN
            /\ \A k, m \in 1..Len(L) : k < m => L[k].idx <= L[m].idx
            /\ \A i \in 1..Len(passes[id].changes) :
                  passes[id].changes[i].status \in ServerStatuses =>
                      LET E == EventsOf(L, i)
                          X == ServerSteps(passes[id].changes[i].status)
                      IN  /\ Len(E) <= Len(X)
                          /\ \A k \in 1..Len(E) :
                                 \/ E[k].ev = X[k]
                                 \/ E[k].ev = "throw" /\ k = Len(E)
                          /\ (i < passes[id].idx) => Len(E) = Len(X))
    /\ [][\A id \in DOMAIN passes :
            (/\ PassDone(lastOp')
             /\ id \notin DOMAIN passes'
             /\ passes[id].pc = "handling"
             /\ \A i \in 1..Len(passes[id].changes) :
                    passes[id].changes[i].status \in ServerStatuses)
            => /\ lastOp'.writes = Len(passes[id].changes)
               /\ notifications' = notifications + 1
               /\ \A i \in 1..Len(passes[id].changes) :
                    LET c == passes[id].changes[i] IN
                    /\ c.status = "AddPackagesFromServer" => c.packages \subseteq installed'
                    /\ c.status = "RemovePackagesFromServer" => c.packages \cap installed' = {}
                    /\ c.status = "PackageSettingsChangedFromServer"
                          => localSettings' = c.packageSettings]_vars

\* one pass installed the packages of an add, applied the settings of a
\* settings change, wrote lastUpdate twice and notified once
C17_Witness ==
    /\ PassDone(lastOp)
    /\ lastOp.n = 2
    /\ lastOp.writes = 2
    /\ successPasses = 1
    /\ notifications = 1
    /\ installed = {"a"}
    /\ localSettings = 1
    /\ localLastUpdate = 1

====
